---- MODULE Spec2Model ----
(***************************************************************************)
(* QuizAgent: the chain-walking agent of main.py (run_agent_chain,         *)
(* safe_submit) and its start endpoint (start_quiz).                       *)
(*                                                                         *)
(* A run is one invocation of run_agent_chain.  Its actions are the        *)
(* segments of the coroutine between two awaits: the collaborator (the     *)
(* quiz server) chooses every response.                                    *)
(*                                                                         *)
(* Values.  Python strings are interned as integers: EmptyStr is "",       *)
(* every positive integer is a distinct non-empty string, PyNone is None.  *)
(* A URL is such a string.                                                 *)
(***************************************************************************)
EXTENDS Integers, Sequences, FiniteSets, TLC

VARIABLES runs, door, mock, csv, task

vars == <<runs, door, mock, csv, task>>

----------------------------------------------------------------------------
(* Bounds of the model *)

\* page URLs the collaborator can name: one more than the step limit, so that
\* a fresh URL is still on offer when the limit is reached
NumUrls == 21
\* submission endpoints a page can name (URLs 1..NumSubmitUrls: URL 1 is also
\* the start page, so a page can name itself or another URL)
NumSubmitUrls == 1
\* start requests the front door receives
MaxRequests == 2

(* Program constants *)

MAX_STEPS == 20
MaxRetries == 2
MY_SECRET == 1

PyNone == -1
EmptyStr == 0

Urls == 1..NumUrls
SubmitUrls == 1..NumSubmitUrls

\* (changed: only None counts as empty, `if current_url is None`)
TruthyUnlessNone(x) == x /= PyNone

\* Python truthiness of a string-or-None value (`if x`, `not x`)
Truthy(x) == x /= PyNone /\ x /= EmptyStr


----------------------------------------------------------------------------
(* What the collaborator can send *)

\* final status of the GET of a page (redirects are followed by the client)
GetStatuses == {200, 400, 404, 500}
\* final status of the GET of a resource (a CSV, text or PDF file)
DownloadStatuses == {200, 204, 404}
\* status of the response to a POST
PostStatuses == {200, 500}

\* The content of a fetched page, as far as run_agent_chain reads it:
\*   submit  the URL of "Post your answer to <strong>URL</strong>", or PyNone
\*   csv     "no": the CSV condition is false; "signal": it is true but no
\*           link ends in .csv; "link": a link ends in .csv
\*   txt     the same for the .txt/.pdf condition
\*   img, france, math   the image / capital-of-France / 2+2 conditions
\*   quoted, nums        the page holds a quoted short text / an integer
Pages ==
    [submit : SubmitUrls \cup {PyNone},
     csv : {"no", "signal", "link"},
     txt : {"no", "signal", "link"},
     img : BOOLEAN, france : BOOLEAN, math : BOOLEAN,
     quoted : BOOLEAN, nums : BOOLEAN]

\* JSON member `correct` of a response: missing, true, false or null
CorrectVals == {"absent", "true", "false", "null"}

NoResp == [status |-> 0, body |-> "none", correct |-> "absent", url |-> PyNone]
\* the POST raised instead of answering
RaisedResp == [NoResp EXCEPT !.body = "raised"]
\* the outcome of the GET of the page: it raised, or answered with a status
NoGet == [raised |-> FALSE, status |-> 0]
NoEnvelope ==
    [email |-> PyNone, secret |-> PyNone, url |-> PyNone, answer |-> "none"]
NoPost == [to |-> PyNone, json |-> NoEnvelope]

\* what the classification reads of a page (lines 172-261): whether the URL
\* of the page holds "csv", which phrases its text holds, and the kinds of
\* links found in it
NoRaw ==
    [url_csv |-> FALSE, text_csv |-> FALSE, text_txt |-> FALSE,
     text_pdf |-> FALSE, text_image |-> FALSE, text_france |-> FALSE,
     text_math |-> FALSE, quoted |-> FALSE, nums |-> FALSE, links |-> {}]

\* no page is being classified
NoTask == [raw |-> NoRaw, pc |-> "none", handler |-> "none",
           answer |-> "none", downloads |-> {}]

\* no call of answer_csv_sum is followed
NoCsv == [file |-> << >>, returned |-> FALSE, total |-> 0]

\* the mock server (mock_server.py) at its start: `_submission_log = []`,
\* nothing answered, no request being handled
NoMock == [log |-> << >>, out |-> << >>, clears |-> 0, handlers |-> << >>]

\* The lowest-numbered URL not yet visited stands for every fresh URL: URLs
\* are only compared for equality, so fresh URLs are interchangeable.
FreshUrls(visited) ==
    {u \in Urls \ visited : \A w \in Urls \ visited : u <= w}

\* member `url` of a response after dict.get: None (missing or null), the
\* empty string, a URL already visited or a fresh one.  The run only tests
\* membership in `visited`, so two visited URLs stand for all of them: the
\* page just fetched and the start page.
NextUrlChoices(current_url, visited) ==
    {PyNone, EmptyStr} \cup ({current_url, 1} \cap visited) \cup FreshUrls(visited)

\* The responses to a submission: a body that is not JSON, a JSON value that
\* is not an object, or a JSON object
PostResponses(current_url, visited) ==
    [status : PostStatuses, body : {"nonjson", "other"},
     correct : {"absent"}, url : {PyNone}]
    \cup
    [status : PostStatuses, body : {"dict"},
     correct : CorrectVals, url : NextUrlChoices(current_url, visited)]

----------------------------------------------------------------------------
(* State of one run of run_agent_chain *)

\* the e-mail address of the start request
Emails == {2}

NewRun(start_url, email, secret) ==
    [pc |-> "loop",
     email |-> email, secret |-> secret,
     current_url |-> start_url, visited |-> {}, step |-> 0,
     \* locals of the current iteration
     submit_url |-> PyNone, answer |-> "none",
     attempt |-> 0, retry_ok |-> FALSE,
     \* what the run has sent and received (observation only)
     fetched |-> << >>,        \* page URLs requested with GET, in order
     resources |-> << >>,      \* resource URLs requested with GET, in order
                               \* (followed in SpecGets only)
     lastGet |-> NoGet,        \* the outcome of the latest of these GETs
     posts |-> 0,              \* answer submissions of this iteration
     lastPost |-> NoPost,      \* the latest answer submission
     lastResp |-> NoResp,      \* the response to it, NoResp while awaited
     diags |-> << >>,          \* diagnostic submissions, in order
     diag_raised |-> FALSE,    \* the POST of safe_submit raised
     outcome |-> "running"]


----------------------------------------------------------------------------
(* Helpers of run_agent_chain *)

\* (changed: the limit is tested one iteration late)
StepLimitOffByOne(step) == step > MAX_STEPS

\* `for step in range(MAX_STEPS)` has no iteration left
StepLimitReached(step) == step >= MAX_STEPS

\* (changed: the loop-prevention test is missing)
AlreadyVisitedNever(url, visited) == FALSE

\* (changed: visited is one set shared by all runs, a module-level global)
AlreadyVisitedByAnyRun(url, visited) ==
    \E q \in DOMAIN runs : url \in runs[q].visited

\* `if current_url in visited`
AlreadyVisited(url, visited) == url \in visited

\* (changed: 400 itself passes as a page)
IsErrorStatusAbove(status) == status > 400

\* `if resp.status_code >= 400`
IsErrorStatus(status) == status >= 400

\* The iteration has nothing left but to end (break, continue, or a call of
\* safe_submit followed by break): its locals are dead and are dropped from
\* the state.
EndIteration(run) ==
    [run EXCEPT !.submit_url = PyNone, !.answer = "none", !.attempt = 0,
                !.lastPost = NoPost]

\* (changed: no break after safe_submit, the loop goes on)
FinishUnlessReported(run, why) ==
    [EndIteration(run) EXCEPT !.pc = IF run.diags /= << >> THEN "loop" ELSE "done",
                              !.outcome = why]

\* break (or the loop running out): "[agent] Finished chain processing."
Finish(run, why) ==
    [EndIteration(run) EXCEPT !.pc = "done", !.outcome = why]

\* the envelope safe_submit builds
DiagPayload(run, answer) ==
    [email |-> run.email, secret |-> run.secret,
     url |-> run.current_url, answer |-> answer]

\* `await safe_submit(client, email, secret, current_url, <answer>)` up to its
\* POST to BASE_URL/mock-submit/fail-safe
CallSafeSubmit(run, why, answer) ==
    [EndIteration(run) EXCEPT !.pc = "await_safe_submit", !.outcome = why,
                !.diags = Append(@, DiagPayload(run, answer))]

\* (changed: the envelope names the submission URL instead of the page)
SubmissionPayloadSubmitUrl(run, answer) ==
    [email |-> run.email, secret |-> run.secret,
     url |-> run.submit_url, answer |-> answer]

\* an answer submission goes out: `client.post(submit_url, json=submission_payload)`
SubmissionPayload(run, answer) ==
    [email |-> run.email, secret |-> run.secret,
     url |-> run.current_url, answer |-> answer]

CountPost(n) == IF n <= MaxRetries + 1 THEN n + 1 ELSE n

\* the answers that report a failure of the resolution (lines 184-239 and
\* answer_csv_sum, lines 390-438)
ErrorMarkers ==
    {"Error: AI could not determine the answer.",
     "Error: CSV processing failed", "Error: could not fetch CSV",
     "Error: empty CSV",
     "Error during AI analysis: exception",
     "Error during AI analysis: Client error"}

\* (changed: an answer that reports a failure is not posted to the page's
\* submission URL, the run reports it with safe_submit and stops)
SubmitAnswerUnlessError(run, answer) ==
    IF ~Truthy(run.submit_url)
    THEN Finish(run, "no_submit_url")
    ELSE IF answer \in ErrorMarkers
    THEN CallSafeSubmit(run, "resolution_failed", answer)
    ELSE [run EXCEPT !.pc = "await_post", !.answer = answer,
                     !.posts = CountPost(@),
                     !.lastPost = [to |-> run.submit_url,
                                   json |-> SubmissionPayload(run, answer)]]

\* (changed: a page without a submission URL is reported with safe_submit)
SubmitAnswerReportsNoTarget(run, answer) ==
    IF ~Truthy(run.submit_url)
    THEN CallSafeSubmit(run, "no_submit_url", "Error: no submit URL")
    ELSE [run EXCEPT !.pc = "await_post", !.answer = answer,
                     !.posts = CountPost(@),
                     !.lastPost = [to |-> run.submit_url,
                                   json |-> SubmissionPayload(run, answer)]]

\* lines 275-290: no submission URL stops the run, else the answer is posted
SubmitAnswer(run, answer) ==
    IF ~Truthy(run.submit_url)
    THEN Finish(run, "no_submit_url")
    ELSE [run EXCEPT !.pc = "await_post", !.answer = answer,
                     !.posts = CountPost(@),
                     !.lastPost = [to |-> run.submit_url,
                                   json |-> SubmissionPayload(run, answer)]]

\* (changed: the .txt/.pdf branch is tested before the CSV branch)
TaskOfTextFirst(page) ==
    IF page.txt /= "no" THEN "TextLookup"
    ELSE IF page.csv /= "no" THEN "NumericSum"
    ELSE IF page.img THEN "ImageDescribe"
    ELSE IF page.france \/ page.math THEN "Trivia"
    ELSE "Unknown"

\* lines 168-273: the task category of a page, first match wins
TaskOf(page) ==
    IF page.csv /= "no" THEN "NumericSum"
    ELSE IF page.txt /= "no" THEN "TextLookup"
    ELSE IF page.img THEN "ImageDescribe"
    ELSE IF page.france \/ page.math THEN "Trivia"
    ELSE "Unknown"

ErrorUndetermined == "Error: AI could not determine the answer."

\* whether the answer needs a resource download first (csv_url / txt_url found)
NeedsDownload(page) ==
    \/ TaskOf(page) = "NumericSum" /\ page.csv = "link"
    \/ TaskOf(page) = "TextLookup" /\ page.txt = "link"

\* the answer of a page that needs no download
PageAnswer(page) ==
    CASE TaskOf(page) = "NumericSum" ->
           IF page.nums THEN "sum of the integers of the page"
           ELSE ErrorUndetermined
      [] TaskOf(page) = "TextLookup" -> ErrorUndetermined
      [] TaskOf(page) = "ImageDescribe" -> "A blank white image or canvas."
      [] TaskOf(page) = "Trivia" -> IF page.france THEN "Paris" ELSE "4"
      [] OTHER ->
           IF page.quoted THEN "quoted text of the page"
           ELSE IF page.nums THEN "first integer of the page"
           ELSE ErrorUndetermined

\* answer_csv_sum (lines 390-438) on the outcome of its GET
CsvAnswer(raised, status, body) ==
    IF raised THEN "Error: CSV processing failed"
    ELSE IF status /= 200 THEN "Error: could not fetch CSV"
    ELSE IF body = "empty" THEN "Error: empty CSV"
    ELSE "sum of the CSV column"

\* lines 210-235 on the outcome of the GET of txt_url
TxtAnswer(raised, status, body) ==
    IF raised THEN "Error during AI analysis: exception"
    ELSE IF status /= 200 THEN "Error during AI analysis: Client error"
    ELSE IF body = "quoted" THEN "quoted word of the file"
    ELSE IF body = "secret word is" THEN "word after 'secret word is'"
    ELSE IF body = "blank" THEN "Error during AI analysis: exception"
    ELSE "first line of the file"

\* the pages the collaborator can serve: "what is 2+2" holds an integer
ValidPages == {p \in Pages : p.math => p.nums}

\* dict.get("correct", default), then its truth value
GetCorrect(resp, default) ==
    IF resp.correct = "absent" THEN default ELSE resp.correct = "true"

\* lines 292-300: `post_resp.json()` raises
NotJson(resp) == resp.body = "nonjson"

\* (changed: `correct` defaults to false in the first response too)
CorrectDefaultFalse(resp) == resp.body = "dict" /\ GetCorrect(resp, FALSE)

\* (changed: the next URL is taken only from a response judged correct)
NextUrlIfCorrect(resp) ==
    IF resp.body = "dict" /\ GetCorrect(resp, TRUE) THEN resp.url ELSE PyNone

\* lines 303-310: correct and next_url of the first response
Correct(resp) == IF resp.body = "dict" THEN GetCorrect(resp, TRUE) ELSE TRUE

NextUrl(resp) == IF resp.body = "dict" THEN resp.url ELSE PyNone

\* lines 328-330: a retry response that ends the retrying
RetryOk(resp) == resp.body = "dict" /\ GetCorrect(resp, FALSE)

\* (changed: one retry too many)
RetryLoopOneMore(attempt) == attempt <= MaxRetries

\* `for attempt in range(2)` has an iteration left
RetryLoopContinues(attempt) == attempt < MaxRetries

\* (changed: the attempt counter is not advanced)
NextAttemptStuck(attempt) == attempt

\* `for attempt in range(2)` moves to its next iteration
NextAttempt(attempt) == attempt + 1

\* (changed: no except clause, the exception leaves safe_submit)
SafeSubmitReraises(raised) == IF raised THEN "raises" ELSE "returns"

\* what safe_submit does with an exception of its POST (lines 385-387):
\* it is swallowed and safe_submit returns
SafeSubmitExcept(raised) == "returns"

\* (changed: `current_url = next_url` is missing)
FollowStale(run, next_url) ==
    IF Truthy(next_url)
    THEN [EndIteration(run) EXCEPT !.pc = "pace"]
    ELSE Finish(run, "finished")

\* lines 345-354: follow next_url or stop
Follow(run, next_url) ==
    IF Truthy(next_url)
    THEN [EndIteration(run) EXCEPT !.current_url = next_url, !.pc = "pace"]
    ELSE Finish(run, "finished")

\* lines 316-343: the head of the retry loop, and what follows the loop
RetryLoop(run) ==
    IF RetryLoopContinues(run.attempt)
    THEN [run EXCEPT !.pc = "retry_sleep"]
    ELSE CallSafeSubmit(run, "retries_exhausted", ErrorUndetermined)

\* lines 128-290: the page that arrived is decoded and classified; its answer
\* is posted unless a resource has to be downloaded first
AfterPage(run, status, page) ==
    LET got == [run EXCEPT !.submit_url = page.submit,
                           !.lastGet = [NoGet EXCEPT !.status = status]] IN
    IF NeedsDownload(page)
    THEN [got EXCEPT !.pc = IF TaskOf(page) = "NumericSum"
                            THEN "await_csv" ELSE "await_txt"]
    ELSE SubmitAnswer(got, PageAnswer(page))

\* lines 290-354: what the run does with the first response of the iteration
AfterPostResponse(run, resp) ==
    LET got == [run EXCEPT !.lastResp = resp] IN
    IF NotJson(resp)
    THEN Finish(got, "not_json")
    ELSE IF ~Correct(resp) /\ ~Truthy(NextUrl(resp))
    THEN RetryLoop([got EXCEPT !.attempt = 0])
    ELSE Follow(got, NextUrl(resp))

\* lines 324-343: what the run does with the response to a retry
AfterRetryResponse(run, resp) ==
    LET got == [run EXCEPT !.lastResp = resp] IN
    IF RetryOk(resp)
    THEN Follow([got EXCEPT !.retry_ok = TRUE], resp.url)
    ELSE RetryLoop([got EXCEPT !.attempt = NextAttempt(@)])

----------------------------------------------------------------------------
(* Actions of run r *)

\* the runs that can exist
RunIds == 1..MaxRequests

Started(r) == r \in DOMAIN runs

Step(r, run) == runs' = [runs EXCEPT ![r] = run] /\ UNCHANGED <<door, mock, csv, task>>

\* lines 94-104: the head of the loop, up to the GET of the page
LoopHead(r) ==
    LET run == runs[r] IN
    /\ Started(r)
    /\ run.pc = "loop"
    /\ IF StepLimitReached(run.step)
       THEN Step(r, Finish(run, "step_limit"))
       ELSE IF ~Truthy(run.current_url)
       THEN Step(r, Finish(run, "empty_url"))
       ELSE IF AlreadyVisited(run.current_url, run.visited)
       THEN Step(r, Finish(run, "revisit"))
       ELSE Step(r, [run EXCEPT !.pc = "await_get",
                                !.visited = @ \cup {run.current_url},
                                !.fetched = Append(@, run.current_url),
                                !.posts = 0, !.retry_ok = FALSE,
                                !.lastGet = NoGet, !.lastResp = NoResp])

\* lines 105-115: the GET raises
GetRaises(r) ==
    LET run == runs[r] IN
    /\ Started(r)
    /\ run.pc = "await_get"
    /\ Step(r, CallSafeSubmit([run EXCEPT !.lastGet = [NoGet EXCEPT !.raised = TRUE]],
                               "fetch_raised", "Error: could not fetch"))

\* lines 117-126: the GET answers with an error status
GetErrorStatus(r) ==
    LET run == runs[r] IN
    /\ Started(r)
    /\ run.pc = "await_get"
    /\ \E status \in GetStatuses :
         /\ IsErrorStatus(status)
         /\ Step(r, CallSafeSubmit([run EXCEPT !.lastGet = [NoGet EXCEPT !.status = status]],
                                    "fetch_status", "Error: HTTP status"))


\* lines 128-290: a page arrives; it is decoded, classified and, unless a
\* resource has to be downloaded first, answered
GetPage(r) ==
    LET run == runs[r] IN
    /\ Started(r)
    /\ run.pc = "await_get"
    /\ \E status \in GetStatuses, page \in ValidPages :
         /\ ~IsErrorStatus(status)
         /\ Step(r, AfterPage(run, status, page))

\* lines 185, 390-438: answer_csv_sum returns
CsvReturns(r) ==
    LET run == runs[r] IN
    /\ Started(r)
    /\ run.pc = "await_csv"
    /\ \E raised \in BOOLEAN, status \in DownloadStatuses, body \in {"empty", "rows"} :
         Step(r, SubmitAnswer(run, CsvAnswer(raised, status, body)))

\* lines 210-235: the download of txt_url returns
TxtReturns(r) ==
    LET run == runs[r] IN
    /\ Started(r)
    /\ run.pc = "await_txt"
    /\ \E raised \in BOOLEAN, status \in DownloadStatuses,
          body \in {"quoted", "secret word is", "blank", "other"} :
         Step(r, SubmitAnswer(run, TxtAnswer(raised, status, body)))


\* lines 356-365: a POST of an answer (the first or a retry) raises
PostRaises(r) ==
    LET run == runs[r] IN
    /\ Started(r)
    /\ run.pc \in {"await_post", "await_retry"}
    /\ Step(r, CallSafeSubmit([run EXCEPT !.lastResp = RaisedResp],
                               "post_raised", "Error: submission failed"))

\* lines 290-354: the response to the first submission of the iteration
PostResponse(r) ==
    LET run == runs[r] IN
    /\ Started(r)
    /\ run.pc = "await_post"
    /\ \E resp \in PostResponses(run.current_url, run.visited) :
         Step(r, AfterPostResponse(run, resp))

\* lines 320-323: the retry delay is over, the same payload is posted again
RetryPost(r) ==
    LET run == runs[r] IN
    /\ Started(r)
    /\ run.pc = "retry_sleep"
    /\ Step(r, [run EXCEPT !.pc = "await_retry",
                           !.posts = CountPost(@),
                           !.lastResp = NoResp,
                           !.lastPost = [to |-> run.submit_url,
                                         json |-> SubmissionPayload(run, run.answer)]])

\* lines 324-343: the response to a retry
RetryResponse(r) ==
    LET run == runs[r] IN
    /\ Started(r)
    /\ run.pc = "await_retry"
    /\ \E resp \in PostResponses(run.current_url, run.visited) :
         Step(r, AfterRetryResponse(run, resp))

\* lines 348-351: the pacing delay is over, `continue`
PaceDone(r) ==
    LET run == runs[r] IN
    /\ Started(r)
    /\ run.pc = "pace"
    /\ Step(r, [EndIteration(run) EXCEPT !.pc = "loop", !.step = @ + 1,
                                         !.posts = 0, !.retry_ok = FALSE,
                                         !.lastGet = NoGet, !.lastResp = NoResp])

\* lines 384-387: the POST of safe_submit returns or raises; then `break`
SafeSubmitReturns(r) ==
    LET run == runs[r] IN
    /\ Started(r)
    /\ run.pc = "await_safe_submit"
    /\ \E raised \in BOOLEAN :
         LET got == [run EXCEPT !.diag_raised = raised] IN
         IF SafeSubmitExcept(raised) = "returns"
         THEN Step(r, Finish(got, run.outcome))
         ELSE Step(r, [got EXCEPT !.pc = "raised"])


----------------------------------------------------------------------------
(* The start endpoint: POST /quiz, start_quiz *)

\* The body of a start request: not JSON at all ("invalid"), a JSON value that
\* is not an object ("other"), or an object.  `keys` are the members the
\* object has; a member is null (PyNone), "" or a non-empty string, and a
\* member the object lacks is written PyNone.
NoBody ==
    [kind |-> "none", keys |-> {}, email |-> PyNone, secret |-> PyNone,
     url |-> PyNone]

\* the front door before any request: no request, no response
NoDoor == [requests |-> 0, body |-> NoBody, status |-> 0]

Bodies ==
    {[NoBody EXCEPT !.kind = k] : k \in {"invalid", "other"}}
    \cup
    {b \in [kind : {"object"}, keys : SUBSET {"email", "secret", "url"},
            email : {PyNone, EmptyStr} \cup Emails,
            secret : {PyNone, EmptyStr, MY_SECRET, MY_SECRET + 1},
            url : {PyNone, EmptyStr, 1}] :
        \A k \in {"email", "secret", "url"} : k \notin b.keys => b[k] = PyNone}

\* payload.get(key)
Get(payload, key) == IF key \in payload.keys THEN payload[key] ELSE PyNone

\* line 62: `if not email or not secret or not start_url`
FieldMissing(email, secret, start_url) ==
    ~Truthy(email) \/ ~Truthy(secret) \/ ~Truthy(start_url)

\* (changed: the secret is not compared)
AuthorizedAlways(secret) == TRUE

\* line 68: `if secret != MY_SECRET` is false
Authorized(secret) == secret = MY_SECRET

\* lines 49-75: the status start_quiz answers with
StartStatus(body) ==
    IF body.kind = "invalid" THEN 422
    ELSE IF body.kind /= "object" THEN 422
    ELSE IF FieldMissing(Get(body, "email"), Get(body, "secret"), Get(body, "url"))
    THEN 422
    ELSE IF ~Authorized(Get(body, "secret")) THEN 403
    ELSE 200

\* line 72: background.add_task(run_agent_chain, start_url, email, secret)
AddTask(start_url, email, secret) ==
    LET id == Cardinality(DOMAIN runs) + 1 IN
    [r \in DOMAIN runs \cup {id} |->
        IF r = id THEN NewRun(start_url, email, secret) ELSE runs[r]]

\* one request to POST /quiz
StartQuiz ==
    /\ door.requests < MaxRequests
    /\ \E body \in Bodies :
         /\ door' = [requests |-> door.requests + 1, body |-> body,
                     status |-> StartStatus(body)]
         /\ IF StartStatus(body) = 200
            THEN runs' = AddTask(Get(body, "url"), Get(body, "email"),
                                 Get(body, "secret"))
            ELSE UNCHANGED runs
    /\ UNCHANGED <<mock, csv, task>>

InitStart ==
    runs = << >> /\ door = NoDoor /\ mock = NoMock /\ csv = NoCsv /\ task = NoTask

NextStart == StartQuiz

\* the start endpoint alone: the runs it schedules stay at their start
SpecStart == InitStart /\ [][NextStart]_vars

----------------------------------------------------------------------------
(* One run, started by the start endpoint: the secret is the configured one
   and the start URL is not empty *)


Init ==
    /\ \E email \in Emails : runs = [r \in {1} |-> NewRun(1, email, MY_SECRET)]
    /\ door = NoDoor
    /\ mock = NoMock
    /\ csv = NoCsv
    /\ task = NoTask

Next ==
    \E r \in RunIds :
        \/ LoopHead(r)
        \/ GetRaises(r)
        \/ GetErrorStatus(r)
        \/ GetPage(r)
        \/ CsvReturns(r)
        \/ TxtReturns(r)
        \/ PostRaises(r)
        \/ PostResponse(r)
        \/ RetryPost(r)
        \/ RetryResponse(r)
        \/ PaceDone(r)
        \/ SafeSubmitReturns(r)

Spec == Init /\ [][Next]_vars

\* run_agent_chain called by other code than start_quiz: the start URL may be
\* None or the empty string
InitDirect ==
    /\ \E email \in Emails, start_url \in {PyNone, EmptyStr, 1} :
         runs = [r \in {1} |-> NewRun(start_url, email, MY_SECRET)]
    /\ door = NoDoor
    /\ mock = NoMock
    /\ csv = NoCsv
    /\ task = NoTask

SpecDirect == InitDirect /\ [][Next]_vars

----------------------------------------------------------------------------
(* One run, with the URLs of the resources it downloads *)

\* the steps the run is followed for
MaxGetSteps == 1

\* The URL of the resource a page names (csv_url, txt_url): any link of the
\* page.  The URL of the page itself, the resource downloaded last and a URL
\* not requested so far stand for all of them.
ResourceChoices(run) ==
    {run.current_url}
    \cup (IF run.resources = << >> THEN {}
          ELSE {run.resources[Len(run.resources)]})
    \cup {NumUrls + 1 + Len(run.resources)}

\* lines 128-290, with the GET of the resource (lines 185, 212, 396)
GetPageNaming(r) ==
    LET run == runs[r] IN
    /\ Started(r)
    /\ run.pc = "await_get"
    /\ \E status \in GetStatuses, page \in ValidPages, res \in ResourceChoices(run) :
         /\ ~IsErrorStatus(status)
         /\ Step(r, [AfterPage(run, status, page) EXCEPT
                        !.resources = IF NeedsDownload(page)
                                      THEN Append(@, res) ELSE @])

GetsBound(run) == run.step <= MaxGetSteps

NextGets ==
    \E r \in RunIds :
        \/ LoopHead(r) /\ GetsBound(runs'[r])
        \/ GetRaises(r) /\ GetsBound(runs'[r])
        \/ GetErrorStatus(r) /\ GetsBound(runs'[r])
        \/ GetPageNaming(r) /\ GetsBound(runs'[r])
        \/ CsvReturns(r) /\ GetsBound(runs'[r])
        \/ TxtReturns(r) /\ GetsBound(runs'[r])
        \/ PostRaises(r) /\ GetsBound(runs'[r])
        \/ PostResponse(r) /\ GetsBound(runs'[r])
        \/ RetryPost(r) /\ GetsBound(runs'[r])
        \/ RetryResponse(r) /\ GetsBound(runs'[r])
        \/ PaceDone(r) /\ GetsBound(runs'[r])
        \/ SafeSubmitReturns(r) /\ GetsBound(runs'[r])

SpecGets == Init /\ [][NextGets]_vars

----------------------------------------------------------------------------
(* Two runs at once: two start requests were accepted and the two coroutines
   are interleaved at their awaits by the event loop *)

\* the steps each of the two runs is followed for
MaxTwoSteps == 1

\* the answers of the pages the two runs are served (what a page asks has no
\* part in the state the runs could share)
TwoAnswers == {"none", "Paris"}

TwoBound(run) == run.step <= MaxTwoSteps /\ run.answer \in TwoAnswers

InitTwo ==
    /\ \E email \in Emails :
         runs = [r \in {1, 2} |-> NewRun(1, email, MY_SECRET)]
    /\ door = NoDoor
    /\ mock = NoMock
    /\ csv = NoCsv
    /\ task = NoTask

NextTwo ==
    \E r \in {1, 2} :
        \/ LoopHead(r) /\ TwoBound(runs'[r])
        \/ GetRaises(r) /\ TwoBound(runs'[r])
        \/ GetErrorStatus(r) /\ TwoBound(runs'[r])
        \/ GetPage(r) /\ TwoBound(runs'[r])
        \/ CsvReturns(r) /\ TwoBound(runs'[r])
        \/ TxtReturns(r) /\ TwoBound(runs'[r])
        \/ PostRaises(r) /\ TwoBound(runs'[r])
        \/ PostResponse(r) /\ TwoBound(runs'[r])
        \/ RetryPost(r) /\ TwoBound(runs'[r])
        \/ RetryResponse(r) /\ TwoBound(runs'[r])
        \/ PaceDone(r) /\ TwoBound(runs'[r])
        \/ SafeSubmitReturns(r) /\ TwoBound(runs'[r])

SpecTwo == InitTwo /\ [][NextTwo]_vars

\* every await returns or raises: each network call has a timeout
FairSpec == Spec /\ WF_vars(Next)

----------------------------------------------------------------------------
(* The mock quiz server, mock_server.py *)

\* requests to the submission endpoints that clients send at once
MaxPosts == 3

\* requests to GET /mock-submit/clear
MaxClears == 1

\* the pages of the mock server, as URLs: "/", "/mock-quiz/csv",
\* "/mock-quiz/pdf", "/mock-quiz/image", "/mock-quiz/retry-test",
\* "/mock-quiz/stop-test" under BASE_URL
MockUrl ==
    [root |-> 1, csv |-> 2, pdf |-> 3, image |-> 4, retry |-> 5, stop |-> 6]

\* the submission endpoints, named by the step print_submission prints, and
\* their URLs: "/mock-submit/start", ..., "/mock-submit/stop"
MockSubmitUrl ==
    [START |-> 11, CSV |-> 12, PDF |-> 13, IMAGE |-> 14,
     RETRY_ATTEMPT |-> 15, STOP |-> 16]

MockSteps == DOMAIN MockSubmitUrl

\* the endpoint behind a submission URL
StepOf(url) == CHOOSE step \in MockSteps : MockSubmitUrl[step] = url

\* the page served at a URL (get_test_html without test.html, get_csv_quiz,
\* get_pdf_quiz, get_image_quiz, get_retry_quiz, get_stop_quiz), read as
\* run_agent_chain reads it
MockPage(url) ==
    LET plain == [submit |-> PyNone, csv |-> "no", txt |-> "no", img |-> FALSE,
                  france |-> FALSE, math |-> FALSE, quoted |-> FALSE,
                  nums |-> TRUE]
    IN
    CASE url = MockUrl.root ->
           [plain EXCEPT !.submit = MockSubmitUrl.START, !.quoted = TRUE]
      [] url = MockUrl.csv ->
           [plain EXCEPT !.submit = MockSubmitUrl.CSV, !.csv = "link",
                         !.quoted = TRUE]
      [] url = MockUrl.pdf ->
           [plain EXCEPT !.submit = MockSubmitUrl.PDF, !.txt = "link"]
      [] url = MockUrl.image ->
           [plain EXCEPT !.submit = MockSubmitUrl.IMAGE, !.img = TRUE]
      [] url = MockUrl.retry ->
           [plain EXCEPT !.submit = MockSubmitUrl.RETRY_ATTEMPT, !.france = TRUE]
      [] url = MockUrl.stop ->
           [plain EXCEPT !.submit = MockSubmitUrl.STOP, !.math = TRUE]

\* what /files/simple.txt can hold: the fallback text, which quotes the
\* word, or the content of dummy_notes.txt
MockTxtBodies == {"quoted", "secret word is", "blank", "other"}

\* (changed: the entry replaces the last one instead of being appended)
MockAppendedOverLast(log, data) ==
    IF log = << >> THEN <<data>> ELSE [log EXCEPT ![Len(log)] = data]

\* `_submission_log.append(data)`
MockAppended(log, data) == Append(log, data)

\* (changed: every entry of the log is counted, whatever its url)
RetryCountAll(log) == Len(log)

\* mock_submit_fail: the entries of the log whose url is the retry page
RetryCount(log) ==
    Cardinality({i \in 1..Len(log) : log[i].url = MockUrl.retry})

MockOk(next_url) ==
    [status |-> 200, body |-> "dict", correct |-> "true", url |-> next_url]

\* (changed: the text task leads to the retry page, there is no image step)
MockReplyNoImage(step, log) ==
    CASE step = "START" -> MockOk(MockUrl.csv)
      [] step = "CSV" -> MockOk(MockUrl.pdf)
      [] step = "PDF" -> MockOk(MockUrl.retry)
      [] step = "IMAGE" -> MockOk(MockUrl.retry)
      [] step = "RETRY_ATTEMPT" ->
           IF RetryCount(log) > 1 THEN MockOk(MockUrl.stop)
           ELSE [MockOk(PyNone) EXCEPT !.correct = "false"]
      [] step = "STOP" -> MockOk(PyNone)

\* the response of a submission endpoint, computed after the append
\* (lines 98-199)
MockReply(step, log) ==
    CASE step = "START" -> MockOk(MockUrl.csv)
      [] step = "CSV" -> MockOk(MockUrl.pdf)
      [] step = "PDF" -> MockOk(MockUrl.image)
      [] step = "IMAGE" -> MockOk(MockUrl.retry)
      [] step = "RETRY_ATTEMPT" ->
           IF RetryCount(log) > 1 THEN MockOk(MockUrl.stop)
           ELSE [MockOk(PyNone) EXCEPT !.correct = "false"]
      [] step = "STOP" -> MockOk(PyNone)

\* a handler of a submission endpoint: not started, or between
\* `await request.json()` and the append ("json"), or returned ("replied")
IdleHandler == [pc |-> "idle", step |-> "none", data |-> NoEnvelope]

\* the handler h after `await request.json()`: append, print, respond, with
\* no await in between
MockHandled(m, h) ==
    LET hd == m.handlers[h]
        log2 == MockAppended(m.log, hd.data)
        reply == MockReply(hd.step, log2)
    IN
    [m EXCEPT !.log = log2,
              !.out = Append(@, [step |-> hd.step, correct |-> reply.correct,
                                 url |-> reply.url]),
              !.handlers[h].pc = "replied"]

\* clear_submission_log: `_submission_log = []`
MockClear ==
    /\ mock.clears < MaxClears
    /\ mock' = [mock EXCEPT !.log = << >>, !.clears = @ + 1]
    /\ UNCHANGED <<runs, door, csv, task>>

----------------------------------------------------------------------------
(* The mock server under the submissions of any clients *)

\* the envelopes the clients post: the url is the retry page or another one
LogSteps == {"START", "RETRY_ATTEMPT"}

LogData ==
    {[NoEnvelope EXCEPT !.email = 2, !.secret = MY_SECRET, !.url = u,
                        !.answer = "Paris"] : u \in {MockUrl.root, MockUrl.retry}}

\* a POST arrives: the handler starts and awaits the body
ClientPosts(h) ==
    /\ mock.handlers[h].pc = "idle"
    /\ \E step \in LogSteps, data \in LogData :
         mock' = [mock EXCEPT !.handlers[h] =
                      [pc |-> "json", step |-> step, data |-> data]]
    /\ UNCHANGED <<runs, door, csv, task>>

\* the body has arrived: the handler runs to its return
MockAnswers(h) ==
    /\ mock.handlers[h].pc = "json"
    /\ mock' = MockHandled(mock, h)
    /\ UNCHANGED <<runs, door, csv, task>>

InitLog ==
    /\ runs = << >>
    /\ door = NoDoor
    /\ mock = [NoMock EXCEPT !.handlers = [h \in 1..MaxPosts |-> IdleHandler]]
    /\ csv = NoCsv
    /\ task = NoTask

NextLog ==
    \/ \E h \in 1..MaxPosts : ClientPosts(h)
    \/ \E h \in 1..MaxPosts : MockAnswers(h)
    \/ MockClear

SpecLog == InitLog /\ [][NextLog]_vars

----------------------------------------------------------------------------
(* Runs of the agent against the mock server: a run is started at the start
   page of the mock server, and another one when it has ended; the log may be
   cleared at any time.  The network between the two does not fail. *)

\* the mock server answers the GET of a page
ChainGetPage(r) ==
    LET run == runs[r] IN
    /\ Started(r)
    /\ run.pc = "await_get"
    /\ Step(r, AfterPage(run, 200, MockPage(run.current_url)))

\* /files/local_cities.csv arrives: a header and four rows
ChainCsvReturns(r) ==
    LET run == runs[r] IN
    /\ Started(r)
    /\ run.pc = "await_csv"
    /\ Step(r, SubmitAnswer(run, CsvAnswer(FALSE, 200, "rows")))

\* /files/simple.txt arrives
ChainTxtReturns(r) ==
    LET run == runs[r] IN
    /\ Started(r)
    /\ run.pc = "await_txt"
    /\ \E body \in MockTxtBodies :
         Step(r, SubmitAnswer(run, TxtAnswer(FALSE, 200, body)))

\* the POST of run r reaches its endpoint: the handler awaits the body
ChainReceive(r) ==
    LET run == runs[r] IN
    /\ Started(r)
    /\ run.pc \in {"await_post", "await_retry"}
    /\ mock.handlers[r].pc = "idle"
    /\ mock' = [mock EXCEPT !.handlers[r] =
                    [pc |-> "json", step |-> StepOf(run.lastPost.to),
                     data |-> run.lastPost.json]]
    /\ UNCHANGED <<runs, door, csv, task>>

\* the handler appends and responds, and run r reads the response
ChainReply(r) ==
    LET run == runs[r]
        handled == MockHandled(mock, r)
        reply == MockReply(mock.handlers[r].step, handled.log)
    IN
    /\ Started(r)
    /\ mock.handlers[r].pc = "json"
    /\ mock' = [handled EXCEPT !.handlers[r] = IdleHandler]
    /\ runs' = [runs EXCEPT ![r] = IF run.pc = "await_post"
                                   THEN AfterPostResponse(run, reply)
                                   ELSE AfterRetryResponse(run, reply)]
    /\ UNCHANGED <<door, csv, task>>

\* the runs so far have ended and the agent is sent another start request
ChainStart ==
    /\ Cardinality(DOMAIN runs) < MaxRequests
    /\ \A r \in DOMAIN runs : runs[r].pc = "done"
    /\ \E email \in Emails : runs' = AddTask(MockUrl.root, email, MY_SECRET)
    /\ UNCHANGED <<door, mock, csv, task>>

InitChain ==
    /\ \E email \in Emails :
         runs = [r \in {1} |-> NewRun(MockUrl.root, email, MY_SECRET)]
    /\ door = NoDoor
    /\ mock = [NoMock EXCEPT !.handlers = [r \in RunIds |-> IdleHandler]]
    /\ csv = NoCsv
    /\ task = NoTask

NextChain ==
    \/ \E r \in RunIds :
         \/ LoopHead(r)
         \/ ChainGetPage(r)
         \/ ChainCsvReturns(r)
         \/ ChainTxtReturns(r)
         \/ ChainReceive(r)
         \/ ChainReply(r)
         \/ RetryPost(r)
         \/ PaceDone(r)
    \/ ChainStart
    \/ MockClear

SpecChain == InitChain /\ [][NextChain]_vars

----------------------------------------------------------------------------
(* answer_csv_sum on the text of a CSV file *)

\* data rows of a file
MaxRows == 2

\* A cell of a data row, as far as answer_csv_sum reads it: the integers
\* that `-?\d+` finds in it, in order, and whether it holds other text.  A
\* cell holds no delimiter (comma, semicolon, tab).
EmptyCell == [text |-> FALSE, ints |-> << >>]
IntCell(n) == [text |-> FALSE, ints |-> <<n>>]
TextCell == [text |-> TRUE, ints |-> << >>]
TextIntCell(n) == [text |-> TRUE, ints |-> <<n>>]

IsEmptyCell(c) == c = EmptyCell

\* the rows of a file whose header is ID,Name,Population: an ID, a name that
\* may hold digits ("Area 51"), a population; any cell may be empty
CsvRows ==
    {<<id, name, pop>> :
        id \in {EmptyCell, IntCell(1)},
        name \in {EmptyCell, TextCell, TextIntCell(51)},
        pop \in {EmptyCell, IntCell(100), IntCell(-5)}}

\* /files/local_cities.csv of the mock server (mock_server.py, lines 27-37)
MockCsv ==
    [header |-> <<"id", "name", "population">>,
     rows |-> << <<IntCell(1), TextCell, IntCell(8175133)>>,
                 <<IntCell(2), TextCell, IntCell(3792621)>>,
                 <<IntCell(3), TextCell, IntCell(2695598)>>,
                 <<IntCell(4), TextCell, IntCell(2100263)>> >>]

CsvFiles ==
    {[header |-> <<"id", "name", "population">>, rows |-> rows] :
        rows \in UNION {[1..n -> CsvRows] : n \in 0..MaxRows}}
    \cup {MockCsv}

RECURSIVE SumInts(_)
SumInts(ints) == IF ints = << >> THEN 0 ELSE Head(ints) + SumInts(Tail(ints))

\* `re.findall(r"-?\d+", row)`, summed: every integer of every cell
RECURSIVE SumRow(_)
SumRow(cells) ==
    IF cells = << >> THEN 0 ELSE SumInts(Head(cells).ints) + SumRow(Tail(cells))

\* `re.split(r"[,;\t]+", row.strip())` on the cells joined by commas: a run
\* of delimiters is one delimiter, so an empty cell survives only as the
\* first or the last part
SplitRow(cells) ==
    LET n == Len(cells)
        lead == IF n >= 1 /\ IsEmptyCell(cells[1]) THEN <<EmptyCell>> ELSE << >>
        trail == IF n >= 2 /\ IsEmptyCell(cells[n]) THEN <<EmptyCell>> ELSE << >>
    IN
    lead \o SelectSeq(cells, LAMBDA c : ~IsEmptyCell(c)) \o trail

\* the index (from 1) of the column to sum: the first of the preferred names
\* the header holds, else the last column of a header of two or more
Preferred == <<"population", "value", "amount", "population_total">>

IndexOf(cols, name) == CHOOSE i \in 1..Len(cols) :
                           cols[i] = name /\ \A j \in 1..(i - 1) : cols[j] /= name

TargetIdx(cols) ==
    LET found == {k \in 1..Len(Preferred) : \E i \in 1..Len(cols) : cols[i] = Preferred[k]}
    IN
    IF found /= {}
    THEN IndexOf(cols, Preferred[CHOOSE k \in found : \A m \in found : k <= m])
    ELSE IF Len(cols) >= 2 THEN Len(cols) ELSE 0

\* what one row adds to the total (lines 420-433)
RowValue(cells, target) ==
    LET parts == SplitRow(cells) IN
    IF target /= 0 /\ target <= Len(parts)
    THEN IF parts[target].ints /= << >>
         THEN Head(parts[target].ints)
         ELSE 0
    ELSE SumRow(cells)

RECURSIVE SumRows(_, _)
SumRows(rows, target) ==
    IF rows = << >> THEN 0
    ELSE RowValue(Head(rows), target) + SumRows(Tail(rows), target)

\* answer_csv_sum on a file that was fetched with status 200 and is not empty
AnswerCsvSum(file) == SumRows(file.rows, TargetIdx(file.header))

\* answer_csv_sum returns
CsvSumReturns ==
    /\ ~csv.returned
    /\ csv' = [csv EXCEPT !.returned = TRUE, !.total = AnswerCsvSum(csv.file)]
    /\ UNCHANGED <<runs, door, mock, task>>

InitCsv ==
    /\ runs = << >>
    /\ door = NoDoor
    /\ mock = NoMock
    /\ \E file \in CsvFiles : csv = [NoCsv EXCEPT !.file = file]
    /\ task = NoTask

NextCsv == CsvSumReturns

SpecCsv == InitCsv /\ [][NextCsv]_vars

----------------------------------------------------------------------------
(* The classification of one page and the resolution of its task
   (lines 168-273), on the signals the code tests *)

\* The kinds of links of a page: one that ends in .csv, one that holds .csv
\* without ending in it (a query string follows), one that ends in .txt, in
\* .pdf, in .png/.jpg/.jpeg
LinkKinds == {"csv", "csv_inside", "txt", "pdf", "png"}

\* The pages: a link is part of the text of the page, so a page with a link
\* that ends in .txt holds ".txt"; "what is 2+2" holds an integer
RawPages ==
    {raw \in [url_csv : BOOLEAN, text_csv : BOOLEAN, text_txt : BOOLEAN,
              text_pdf : BOOLEAN, text_image : BOOLEAN, text_france : BOOLEAN,
              text_math : BOOLEAN, quoted : BOOLEAN, nums : BOOLEAN,
              links : SUBSET LinkKinds] :
        /\ "txt" \in raw.links => raw.text_txt
        /\ raw.text_math => raw.nums}

\* the conditions of lines 172-176, 178-182, 196-207, 242-248, 253-261
PageOf(raw) ==
    [submit |-> PyNone,
     csv |-> IF "csv" \in raw.links THEN "link"
             ELSE IF raw.url_csv \/ raw.text_csv \/ "csv_inside" \in raw.links
             THEN "signal" ELSE "no",
     txt |-> IF raw.links \cap {"txt", "pdf"} /= {} THEN "link"
             ELSE IF raw.text_txt \/ raw.text_pdf THEN "signal" ELSE "no",
     img |-> "png" \in raw.links \/ raw.text_image,
     france |-> raw.text_france,
     math |-> raw.text_math,
     quoted |-> raw.quoted,
     nums |-> raw.nums]

\* the if/elif chain is entered: the branch taken, and its answer unless a
\* resource is downloaded first
Classify ==
    LET page == PageOf(task.raw) IN
    /\ task.pc = "page"
    /\ task' = IF NeedsDownload(page)
               THEN [task EXCEPT !.handler = TaskOf(page),
                                 !.pc = IF TaskOf(page) = "NumericSum"
                                        THEN "await_csv" ELSE "await_txt"]
               ELSE [task EXCEPT !.handler = TaskOf(page), !.pc = "answered",
                                 !.answer = PageAnswer(page)]
    /\ UNCHANGED <<runs, door, mock, csv>>

\* answer_csv_sum returns
ResolveCsv ==
    /\ task.pc = "await_csv"
    /\ \E raised \in BOOLEAN, status \in DownloadStatuses, body \in {"empty", "rows"} :
         task' = [task EXCEPT !.pc = "answered", !.downloads = @ \cup {"csv"},
                              !.answer = CsvAnswer(raised, status, body)]
    /\ UNCHANGED <<runs, door, mock, csv>>

\* the download of txt_url returns
ResolveTxt ==
    /\ task.pc = "await_txt"
    /\ \E raised \in BOOLEAN, status \in DownloadStatuses,
          body \in {"quoted", "secret word is", "blank", "other"} :
         task' = [task EXCEPT !.pc = "answered", !.downloads = @ \cup {"txt"},
                              !.answer = TxtAnswer(raised, status, body)]
    /\ UNCHANGED <<runs, door, mock, csv>>

InitResolve ==
    /\ runs = << >>
    /\ door = NoDoor
    /\ mock = NoMock
    /\ csv = NoCsv
    /\ \E raw \in RawPages : task = [NoTask EXCEPT !.raw = raw, !.pc = "page"]

NextResolve == Classify \/ ResolveCsv \/ ResolveTxt

SpecResolve == InitResolve /\ [][NextResolve]_vars

----------------------------------------------------------------------------
(* Properties *)

Last(seq) == seq[Len(seq)]

NoDuplicates(seq) ==
    \A i, j \in 1..Len(seq) : seq[i] = seq[j] => i = j

Range(seq) == {seq[i] : i \in 1..Len(seq)}

\* C1: in every run the number of chain steps, i.e. page fetches, never
\* exceeds MAX_STEPS = 20, whatever the collaborator answers (a fresh next URL
\* after every submission included).
C1_StepBound ==
    \A r \in DOMAIN runs :
        /\ Len(runs[r].fetched) <= MAX_STEPS
        /\ runs[r].step <= MAX_STEPS

\* the limit is met: 20 pages fetched, a fresh URL pending, the run stopped
C1_Witness ==
    \E r \in DOMAIN runs :
        /\ Len(runs[r].fetched) = MAX_STEPS
        /\ runs[r].pc = "done" /\ runs[r].outcome = "step_limit"
        /\ runs[r].current_url \notin runs[r].visited

\* C2: every run eventually reaches a terminal state, provided each network
\* call returns or fails (the fairness of FairSpec), for every behaviour of
\* the collaborator.
C2_Termination ==
    <>(\A r \in DOMAIN runs : runs[r].pc = "done")

\* a run that got a fresh next URL after every submission has stopped
C2_Witness ==
    \E r \in DOMAIN runs :
        /\ runs[r].pc = "done"
        /\ runs[r].outcome = "step_limit"
        /\ runs[r].step = MAX_STEPS

\* C3: no page URL is fetched twice in a run: a URL is fetched only if it is
\* not in visited and joins visited when it is fetched, visited never loses a
\* member, and a run whose current URL is already in visited stops without
\* fetching it.
C3_NoRefetch ==
    /\ [](\A r \in DOMAIN runs :
            /\ NoDuplicates(runs[r].fetched)
            /\ Range(runs[r].fetched) = runs[r].visited)
    /\ [][\A r \in DOMAIN runs :
            /\ runs[r].visited \subseteq runs'[r].visited
            /\ runs'[r].fetched /= runs[r].fetched =>
                 /\ runs'[r].fetched = Append(runs[r].fetched, runs[r].current_url)
                 /\ runs[r].current_url \notin runs[r].visited
                 /\ runs[r].current_url \in runs'[r].visited
            /\ (runs[r].pc = "loop" /\ runs[r].current_url \in runs[r].visited) =>
                 /\ runs'[r].pc = "done"
                 /\ runs'[r].fetched = runs[r].fetched]_vars

\* the collaborator named a visited URL as the next one and the run stopped
C3_Witness ==
    \E r \in DOMAIN runs :
        /\ runs[r].pc = "done" /\ runs[r].outcome = "revisit"
        /\ runs[r].current_url \in runs[r].visited
        /\ Len(runs[r].fetched) >= 2

\* C4: after a first response {correct: false, no url} the run re-submits the
\* identical envelope to the same submission URL at most 2 more times, makes
\* no retry after a retry response with correct = true, and, when no retry
\* succeeded, sends exactly one diagnostic submission and then terminates.
C4_RetryPolicy ==
    /\ [](\A r \in DOMAIN runs :
            LET run == runs[r]
                succeeded == run.lastResp.body = "dict" /\ run.lastResp.correct = "true"
            IN
            /\ run.posts <= 1 + MaxRetries
            /\ (run.posts >= 2 /\ succeeded) => run.pc \in {"pace", "done"}
            /\ (run.posts >= 2 /\ ~succeeded /\ run.pc = "done") =>
                 Len(run.diags) = 1
            /\ Len(run.diags) <= 1)
    /\ [][\A r \in DOMAIN runs :
            \* a retry goes out: the same target, the same envelope, and the
            \* response before it was {correct: false, no url} or a failed retry
            /\ runs'[r].pc = "await_retry" =>
                 /\ runs'[r].posts = runs[r].posts + 1
                 /\ runs'[r].lastPost = runs[r].lastPost
                 /\ runs[r].lastResp.body /= "none"
                 /\ runs[r].posts = 1 =>
                      /\ runs[r].lastResp.body = "dict"
                      /\ runs[r].lastResp.correct \in {"false", "null"}
                      /\ ~Truthy(runs[r].lastResp.url)
            \* after the diagnostic submission the run only terminates
            /\ runs[r].pc = "await_safe_submit" => runs'[r].pc = "done"]_vars

\* both retries failed: three submissions, one diagnostic, the run has stopped
C4_Witness ==
    \E r \in DOMAIN runs :
        /\ runs[r].pc = "done"
        /\ runs[r].posts = 1 + MaxRetries
        /\ runs[r].lastResp.body = "dict" /\ runs[r].lastResp.correct = "false"
        /\ Len(runs[r].diags) = 1

\* C5: when the GET of a page raises or answers with a status >= 400, or a
\* POST of an answer raises, the run sends exactly one diagnostic submission,
\* carrying the URL of the failing page, and terminates: no answer is
\* submitted for a failed fetch and no further page is fetched.
C5_FailureDiagnostic ==
    \A r \in DOMAIN runs :
        LET run == runs[r]
            fetchFailed == run.lastGet.raised \/ run.lastGet.status >= 400
            postFailed == run.lastResp.body = "raised"
        IN
        (fetchFailed \/ postFailed) =>
            /\ run.pc \in {"await_safe_submit", "done"}
            /\ Len(run.diags) = 1
            /\ run.diags[1].url = Last(run.fetched)
            /\ run.diags[1].email = run.email
            /\ fetchFailed => run.posts = 0

\* a page answered with an error status: one diagnostic, no answer, stopped
C5_Witness ==
    \E r \in DOMAIN runs :
        /\ runs[r].lastGet.status = 404
        /\ runs[r].pc = "done"
        /\ Len(runs[r].diags) = 1
        /\ Len(runs[r].fetched) >= 2

\* C6: when the response body to an answer submission is not parseable JSON
\* the run terminates immediately: no retry submission is made after that
\* response and no further page is fetched.
C6_NotJsonStops ==
    [][\A r \in DOMAIN runs :
         runs[r].lastResp.body = "nonjson" =>
             /\ runs'[r].pc /= "await_retry"
             /\ runs'[r].fetched = runs[r].fetched]_vars

\* C7: when the response to an answer submission is not parseable JSON the
\* run issues a diagnostic submission before it terminates.
C7_NotJsonDiagnostic ==
    \A r \in DOMAIN runs :
        (runs[r].pc = "done" /\ runs[r].lastResp.body = "nonjson") =>
            Len(runs[r].diags) >= 1

\* C8: an answer submission whose response has a non-2xx status is a
\* transport error: the run emits a diagnostic submission and terminates, and
\* neither retries on the response nor advances to a URL it carries.  (Stated
\* for the bodies that parse: C7 is about those that do not.)
C8_ErrorStatusIsTransportError ==
    \A r \in DOMAIN runs :
        LET run == runs[r]
            answered == run.lastResp.body \notin {"none", "raised"}
            non2xx == run.lastResp.status < 200 \/ run.lastResp.status >= 300
        IN
        (answered /\ non2xx /\ run.lastResp.body /= "nonjson") =>
            /\ run.pc \in {"await_safe_submit", "done"}
            /\ run.pc = "done" => Len(run.diags) = 1

\* C9: the start endpoint schedules a run if and only if the body is a JSON
\* object with non-empty email, secret and url whose secret is the configured
\* one, and then answers 200; a body that is no JSON object or lacks a field
\* is answered 422, a wrong secret 403, and then no run is scheduled.
C9_StartContract ==
    [][LET body == door'.body
           present(k) == /\ k \in body.keys
                         /\ body[k] /= PyNone /\ body[k] /= EmptyStr
           wellFormed == /\ body.kind = "object"
                         /\ present("email") /\ present("secret") /\ present("url")
           scheduled == DOMAIN runs' /= DOMAIN runs
       IN
       door'.requests = door.requests + 1 =>
           /\ scheduled <=> (wellFormed /\ body.secret = MY_SECRET)
           /\ scheduled <=> door'.status = 200
           /\ ~wellFormed => door'.status = 422
           /\ (wellFormed /\ body.secret /= MY_SECRET) => door'.status = 403
           /\ ~scheduled => runs' = runs
           /\ scheduled =>
                /\ Cardinality(DOMAIN runs') = Cardinality(DOMAIN runs) + 1
                /\ \A r \in DOMAIN runs : runs'[r] = runs[r]]_vars

\* a request was accepted after one was refused: one run is scheduled
C9_Witness ==
    /\ door.requests = 2
    /\ door.status = 200
    /\ Cardinality(DOMAIN runs) = 1

\* C10: a failure of the POST of safe_submit is swallowed: it raises neither
\* out of safe_submit nor out of the run, and the run still terminates.
C10_DiagnosticFailureSwallowed ==
    \A r \in DOMAIN runs :
        /\ runs[r].pc /= "raised"
        /\ runs[r].diag_raised => runs[r].pc = "done"

\* the diagnostic POST raised and the run has terminated
C10_Witness ==
    \E r \in DOMAIN runs :
        /\ runs[r].diag_raised
        /\ runs[r].pc = "done"
        /\ Len(runs[r].diags) = 1

\* the response a run acts on: the first response of the iteration, or the
\* first retry response that succeeded
Accepted(run) ==
    /\ run.lastResp.body = "dict"
    /\ \/ run.posts = 1
       \/ run.retry_ok /\ run.lastResp.correct = "true"

\* C12: within one run steps are strictly sequential: the page fetched at
\* step N+1 is the url carried by the step-N response the run accepted (the
\* first response or the first successful retry response), and that fetch
\* starts only after the response has been received: a fetch starts from the
\* loop head only, with no submission outstanding, and the loop head of a
\* later step is entered only from an accepted response.
C12_Sequential ==
    [][\A r \in DOMAIN runs :
         LET a == runs[r]
             b == runs'[r]
         IN
         /\ a.pc = "pace" =>
              /\ Accepted(a)
              /\ Truthy(a.lastResp.url)
              /\ a.current_url = a.lastResp.url
              /\ b.pc \in {"pace", "loop"}
              /\ b.current_url = a.current_url
              /\ b.fetched = a.fetched
         /\ (b.pc = "loop" /\ a.pc /= "loop") =>
              a.pc = "pace" /\ b.step = a.step + 1
         /\ b.fetched /= a.fetched =>
              /\ a.pc = "loop"
              /\ a.lastPost = NoPost
              /\ a.lastResp = NoResp
              /\ b.fetched = Append(a.fetched, a.current_url)
         /\ a.pc \in {"await_post", "retry_sleep", "await_retry"} =>
              b.fetched = a.fetched]_vars

\* the second page is being fetched: the step counter has advanced by one and
\* the URL requested is the current one
C12_Witness ==
    \E r \in DOMAIN runs :
        /\ runs[r].pc = "await_get"
        /\ runs[r].step = 1
        /\ Len(runs[r].fetched) = 2
        /\ runs[r].fetched[2] = runs[r].current_url
        /\ runs[r].fetched[2] /= runs[r].fetched[1]

C17_StopWithoutNextUrl ==
    [][\A r \in DOMAIN runs :
         LET a == runs[r]
             b == runs'[r]
             noNextUrl == \/ a.lastResp.body = "other"
                          \/ a.lastResp.body = "dict" /\ ~Truthy(a.lastResp.url)
             noRetry == \/ a.posts = 1 /\ a.lastResp.body = "other"
                        \/ a.posts = 1 /\ a.lastResp.correct \in {"true", "absent"}
                        \/ a.posts >= 2 /\ a.lastResp.body = "dict"
                                        /\ a.lastResp.correct = "true"
         IN
         (noNextUrl /\ noRetry) =>
             /\ a.pc = "done" /\ a.outcome = "finished"
             /\ a.diags = << >>
             /\ b = a]_vars

\* the first response of the second step was {url: null} without `correct`:
\* the run has ended after one submission, without a diagnostic
C17_Witness ==
    \E r \in DOMAIN runs :
        /\ runs[r].pc = "done" /\ runs[r].outcome = "finished"
        /\ runs[r].posts = 1
        /\ runs[r].lastResp.body = "dict"
        /\ runs[r].lastResp.correct = "absent"
        /\ runs[r].lastResp.url = PyNone
        /\ Len(runs[r].fetched) = 2
        /\ runs[r].diags = << >>

\* C18: `correct` defaults to true when absent in every parsed submission
\* response, retry responses included: a response without the correct field,
\* or a JSON value that is no object, is treated as a correct verdict: it
\* triggers no retry and no diagnostic, and, received during the retrying,
\* ends the retrying as a success.
C18_CorrectDefaultsTrue ==
    \A r \in DOMAIN runs :
        LET run == runs[r]
            tolerated == \/ run.lastResp.body = "other"
                         \/ run.lastResp.body = "dict" /\ run.lastResp.correct = "absent"
        IN
        tolerated =>
            /\ run.pc \in {"pace", "done"}
            /\ run.diags = << >>
            /\ run.posts >= 2 => run.retry_ok

\* C19: the loop guard is a clean stop: when, at the head of the loop, the
\* current URL is empty (None or ""), is already in visited, or the step
\* limit of 20 is reached, the run terminates without fetching, without
\* submitting an answer and without a diagnostic submission.
C19_CleanStop ==
    [][\A r \in DOMAIN runs :
         LET a == runs[r]
             b == runs'[r]
             guard == \/ a.current_url \in {PyNone, EmptyStr}
                      \/ a.current_url \in a.visited
                      \/ a.step >= MAX_STEPS
         IN
         /\ (a.pc = "loop" /\ guard /\ b /= a) =>
              /\ b.pc = "done"
              /\ b.fetched = a.fetched
              /\ b.posts = 0 /\ b.lastPost = NoPost
              /\ b.diags = << >>
         /\ a.pc = "done" => b = a]_vars

\* a run called with an empty start URL has stopped: nothing fetched, nothing
\* posted
C19_Witness ==
    \E r \in DOMAIN runs :
        /\ runs[r].pc = "done"
        /\ runs[r].current_url = EmptyStr
        /\ runs[r].fetched = << >>
        /\ runs[r].posts = 0
        /\ runs[r].diags = << >>

\* C20: a resolution failure does not abort the step: whatever the resolver
\* yields, an error marker included (no answer derivable, the download of the
\* resource raised or answered with an error status), a page with a
\* submission target gets that string posted as its answer to its submission
\* URL in the normal envelope, and no diagnostic submission is sent for that
\* reason: a diagnostic follows only a failed page fetch, a POST that raised
\* or exhausted retries.
C20_ErrorMarkerSubmitted ==
    /\ [](\A r \in DOMAIN runs :
            LET run == runs[r] IN
            /\ (run.pc = "await_post" /\ run.answer \in ErrorMarkers) =>
                 /\ run.lastPost.to = run.submit_url
                 /\ run.lastPost.json = [email |-> run.email, secret |-> run.secret,
                                         url |-> run.current_url,
                                         answer |-> run.answer]
                 /\ run.diags = << >>
            /\ run.diags /= << >> =>
                 \/ run.lastGet.raised
                 \/ run.lastGet.status >= 400
                 \/ run.lastResp.body = "raised"
                 \/ run.posts = 1 + MaxRetries)
    /\ [][\A r \in DOMAIN runs :
            LET a == runs[r]
                b == runs'[r]
                posted == /\ b.pc = "await_post"
                          /\ b.posts = 1
                          /\ b.lastPost.to = b.submit_url
                          /\ b.lastPost.json.answer = b.answer
                          /\ b.lastPost.json.url = a.current_url
                          /\ b.diags = << >>
                noTarget == /\ b.pc = "done" /\ b.outcome = "no_submit_url"
                            /\ b.diags = << >>
            IN
            \* the download of the resource returned, raised or failed
            /\ (a.pc \in {"await_csv", "await_txt"} /\ b /= a) =>
                 \/ Truthy(a.submit_url) /\ posted
                 \/ ~Truthy(a.submit_url) /\ noTarget
            \* the page arrived
            /\ (a.pc = "await_get" /\ b /= a
                  /\ ~b.lastGet.raised /\ b.lastGet.status < 400) =>
                 \/ b.pc \in {"await_csv", "await_txt"}
                 \/ posted
                 \/ noTarget]_vars

\* the CSV of the second page could not be fetched: the error marker is on its
\* way to the page's submission URL, no diagnostic was sent
C20_Witness ==
    \E r \in DOMAIN runs :
        /\ runs[r].pc = "await_post"
        /\ runs[r].answer = "Error: could not fetch CSV"
        /\ runs[r].lastPost.json.answer = "Error: could not fetch CSV"
        /\ runs[r].lastPost.to = runs[r].submit_url
        /\ Len(runs[r].fetched) = 2
        /\ runs[r].diags = << >>

\* C13: concurrent runs share no mutable chain state: each run has its own
\* visited set and step count.  A step of one run changes nothing of the
\* other run; visited holds exactly the run's own fetches and step counts its
\* own iterations; and whether a run fetches its current URL depends on its
\* own visited set and step count alone, so a URL the other run has visited
\* is still fetched.
C13_RunsIndependent ==
    /\ [](\A r \in DOMAIN runs :
            /\ runs[r].visited = Range(runs[r].fetched)
            /\ runs[r].step \in {Len(runs[r].fetched) - 1, Len(runs[r].fetched)})
    /\ [][\A r \in DOMAIN runs :
            LET a == runs[r]
                b == runs'[r]
            IN
            /\ b /= a => \A q \in DOMAIN runs \ {r} : runs'[q] = runs[q]
            /\ (a.pc = "loop" /\ b /= a /\ a.step < MAX_STEPS
                  /\ a.current_url \notin {PyNone, EmptyStr}
                  /\ a.current_url \notin a.visited) =>
                 /\ b.pc = "await_get"
                 /\ b.fetched = Append(a.fetched, a.current_url)
                 /\ b.visited = a.visited \cup {a.current_url}
                 /\ b.step = a.step]_vars

\* both runs have fetched the same two URLs, each in its second step
C13_Witness ==
    /\ DOMAIN runs = {1, 2}
    /\ \A r \in DOMAIN runs :
         /\ runs[r].fetched = <<1, 2>>
         /\ runs[r].step = 1
         /\ runs[r].pc = "await_get"

\* the entries of a log that equal d
CountIn(log, d) == Cardinality({i \in 1..Len(log) : log[i] = d})

\* C14: the submission log loses no update under concurrent submissions:
\* while no clear has happened, whatever the interleaving of the handlers,
\* the log holds exactly one entry per POST that was answered, with the data
\* of that POST, and a handler that returns appends its data to the log as it
\* is then.
C14_LogLosesNoUpdate ==
    /\ [](mock.clears = 0 =>
            LET replied == {h \in DOMAIN mock.handlers :
                               mock.handlers[h].pc = "replied"}
            IN
            /\ Len(mock.log) = Cardinality(replied)
            /\ \A d \in LogData :
                 CountIn(mock.log, d) =
                     Cardinality({h \in replied : mock.handlers[h].data = d}))
    /\ [][\A h \in DOMAIN mock.handlers :
            (mock.handlers[h].pc = "json" /\ mock'.handlers[h].pc = "replied") =>
                mock'.log = Append(mock.log, mock.handlers[h].data)]_vars

\* every client has posted and was answered, the second one first: the log
\* holds one entry for each
C14_Witness ==
    /\ mock.clears = 0
    /\ \A h \in DOMAIN mock.handlers : mock.handlers[h].pc = "replied"
    /\ Len(mock.log) = MaxPosts
    /\ mock.log[1] = mock.handlers[2].data
    /\ mock.log[1] /= mock.handlers[1].data

\* the steps print_submission has printed, in order
OutSteps == [i \in 1..Len(mock.out) |-> mock.out[i].step]

\* the page URLs of the entries of the log, in order
LogUrls == [i \in 1..Len(mock.log) |-> mock.log[i].url]

\* the first run against the mock server has ended, and nothing else has
\* touched the log: no clear, no other run
FirstRunEnded ==
    /\ DOMAIN runs = {1}
    /\ mock.clears = 0
    /\ runs[1].pc = "done"

\* C11 (as the code has it): run against the mock server from its start page,
\* the agent performs exactly 6 chain steps (start, CSV, text, image, retry,
\* stop) and the mock server records, in this order, exactly the submissions
\* START, CSV, PDF (the text task), IMAGE, RETRY (answered correct: false, no
\* url), RETRY (answered correct: true with the stop page), STOP, the last
\* response carrying url: null; the run ends without a diagnostic.
C11_MockChain ==
    FirstRunEnded =>
        /\ runs[1].fetched = <<MockUrl.root, MockUrl.csv, MockUrl.pdf,
                               MockUrl.image, MockUrl.retry, MockUrl.stop>>
        /\ OutSteps = <<"START", "CSV", "PDF", "IMAGE", "RETRY_ATTEMPT",
                        "RETRY_ATTEMPT", "STOP">>
        /\ LogUrls = <<MockUrl.root, MockUrl.csv, MockUrl.pdf, MockUrl.image,
                       MockUrl.retry, MockUrl.retry, MockUrl.stop>>
        /\ mock.out[5].correct = "false" /\ mock.out[5].url = PyNone
        /\ mock.out[6].correct = "true" /\ mock.out[6].url = MockUrl.stop
        /\ mock.out[7].url = PyNone
        /\ runs[1].outcome = "finished"
        /\ runs[1].lastResp.url = PyNone
        /\ runs[1].diags = << >>

\* the first run has ended after the response of the stop endpoint
C11_Witness ==
    /\ FirstRunEnded
    /\ Len(mock.log) = 7
    /\ mock.out[Len(mock.out)].step = "STOP"
    /\ runs[1].outcome = "finished"

\* C11 (as claimed): the run performs exactly 5 chain steps and the log
\* records exactly START, CSV, TXT, RETRY (failed), RETRY (succeeded), STOP.
C11_MockChainFiveSteps ==
    FirstRunEnded =>
        /\ Len(runs[1].fetched) = 5
        /\ OutSteps = <<"START", "CSV", "PDF", "RETRY_ATTEMPT",
                        "RETRY_ATTEMPT", "STOP">>
        /\ mock.out[Len(mock.out)].url = PyNone

\* the sum of the Population column: the third cell of every data row
RECURSIVE PopulationSum(_)
PopulationSum(rows) ==
    IF rows = << >> THEN 0
    ELSE SumInts(Head(rows)[3].ints) + PopulationSum(Tail(rows))

\* C15: for a CSV whose header is ID,Name,Population, answer_csv_sum returns
\* exactly the integer sum of the Population column over all data rows
\* (16763615 for the file of the mock server); the cells of the other columns
\* do not contribute.
C15_PopulationSum ==
    csv.returned =>
        /\ csv.total = PopulationSum(csv.file.rows)
        /\ csv.file = MockCsv => csv.total = 16763615

\* C21: when no submission target is found on a fetched page the run
\* terminates without any POST: no answer submission, no diagnostic
\* submission, and no further page is fetched; an answer is posted only to a
\* submission URL the page named.
C21_NoTargetNoPost ==
    /\ [](\A r \in DOMAIN runs :
            LET run == runs[r] IN
            /\ run.pc \in {"await_post", "retry_sleep", "await_retry"} =>
                 Truthy(run.submit_url) /\ run.lastPost.to = run.submit_url
            /\ (run.pc \in {"await_csv", "await_txt"} /\ ~Truthy(run.submit_url)) =>
                 run.posts = 0 /\ run.diags = << >>)
    /\ [][\A r \in DOMAIN runs :
            LET a == runs[r]
                b == runs'[r]
                stopped == /\ b.pc = "done"
                           /\ b.posts = 0 /\ b.lastPost = NoPost
                           /\ b.diags = << >>
                           /\ b.fetched = a.fetched
            IN
            \* the page arrived and names no target: the run stops, or first
            \* downloads the resource the page names
            /\ (a.pc = "await_get" /\ b /= a
                  /\ ~b.lastGet.raised /\ b.lastGet.status < 400
                  /\ ~Truthy(b.submit_url)) =>
                 \/ stopped
                 \/ b.pc \in {"await_csv", "await_txt"} /\ b.fetched = a.fetched
            \* the download is over
            /\ (a.pc \in {"await_csv", "await_txt"} /\ b /= a
                  /\ ~Truthy(a.submit_url)) => stopped
            \* and the run stays stopped
            /\ a.pc = "done" => b = a]_vars

\* the second page named no submission target: the run has ended without a
\* POST
C21_Witness ==
    \E r \in DOMAIN runs :
        /\ runs[r].pc = "done" /\ runs[r].outcome = "no_submit_url"
        /\ runs[r].lastGet.status = 200
        /\ Len(runs[r].fetched) = 2
        /\ runs[r].posts = 0 /\ runs[r].lastPost = NoPost
        /\ runs[r].diags = << >>

\* C22: every answer submission of a run, retries included, carries the
\* envelope {email, secret, url, answer} in which email and secret are the
\* values the run was started with, unchanged for the whole run, and url is
\* the URL of the page fetched in that step, not the submission URL; the
\* retries of a step carry the envelope, and so the answer, of its first
\* submission.
C22_Envelope ==
    /\ [](\A r \in DOMAIN runs :
            LET run == runs[r] IN
            run.lastPost /= NoPost =>
                /\ run.lastPost.json.email = run.email
                /\ run.lastPost.json.secret = run.secret
                /\ run.lastPost.json.url = Last(run.fetched)
                /\ run.lastPost.json.answer = run.answer
                /\ run.lastPost.to = run.submit_url)
    /\ [][\A r \in DOMAIN runs :
            LET a == runs[r]
                b == runs'[r]
            IN
            /\ b.email = a.email /\ b.secret = a.secret
            /\ (b.lastPost /= NoPost /\ a.lastPost /= NoPost) =>
                 b.lastPost = a.lastPost /\ b.fetched = a.fetched
            /\ b.posts > a.posts =>
                 /\ b.lastPost /= NoPost
                 /\ b.pc \in {"await_post", "await_retry"}]_vars

\* the second retry of the second step is out: the envelope names the second
\* page and the answer of the step
C22_Witness ==
    \E r \in DOMAIN runs :
        /\ runs[r].pc = "await_retry"
        /\ runs[r].posts = 1 + MaxRetries
        /\ Len(runs[r].fetched) = 2
        /\ runs[r].lastPost.json.url = runs[r].fetched[2]
        /\ runs[r].lastPost.json.answer = "Paris"
        /\ runs[r].lastPost.json.email = runs[r].email

\* the answers each handler can give
HandlerAnswers(handler) ==
    CASE handler = "NumericSum" ->
           {"sum of the CSV column", "sum of the integers of the page",
            "Error: CSV processing failed", "Error: could not fetch CSV",
            "Error: empty CSV", ErrorUndetermined}
      [] handler = "TextLookup" ->
           {"quoted word of the file", "word after 'secret word is'",
            "first line of the file", "Error during AI analysis: exception",
            "Error during AI analysis: Client error", ErrorUndetermined}
      [] handler = "ImageDescribe" -> {"A blank white image or canvas."}
      [] handler = "Trivia" -> {"Paris", "4"}
      [] handler = "Unknown" ->
           {"quoted text of the page", "first integer of the page",
            ErrorUndetermined}

\* C23: classification is first-match-wins in the priority NumericSum >
\* TextLookup > ImageDescribe > Trivia > Unknown: for every combination of
\* signals of a page the answer comes from the handler of the highest
\* category whose signal is present and no handler of a lower category runs:
\* only that handler's resource is downloaded.
C23_Priority ==
    LET raw == task.raw
        sigCsv == \/ raw.url_csv \/ raw.text_csv
                  \/ raw.links \cap {"csv", "csv_inside"} /= {}
        sigTxt == \/ raw.text_txt \/ raw.text_pdf
                  \/ raw.links \cap {"txt", "pdf"} /= {}
        sigImg == "png" \in raw.links \/ raw.text_image
        sigTrivia == raw.text_france \/ raw.text_math
        highest == IF sigCsv THEN "NumericSum"
                   ELSE IF sigTxt THEN "TextLookup"
                   ELSE IF sigImg THEN "ImageDescribe"
                   ELSE IF sigTrivia THEN "Trivia"
                   ELSE "Unknown"
    IN
    /\ task.pc \in {"await_csv", "await_txt", "answered"} =>
         /\ task.handler = highest
         /\ task.pc = "await_csv" => highest = "NumericSum"
         /\ task.pc = "await_txt" => highest = "TextLookup"
    /\ task.pc = "answered" =>
         /\ task.answer \in HandlerAnswers(highest)
         /\ task.downloads \subseteq
                (IF highest = "NumericSum" THEN {"csv"}
                 ELSE IF highest = "TextLookup" THEN {"txt"} ELSE {})

\* a page that signals a CSV task, links a .txt file and an image and asks
\* for the capital of France was resolved as NumericSum, from its CSV alone
C23_Witness ==
    /\ task.pc = "answered"
    /\ task.raw.links = {"csv", "txt", "png"}
    /\ task.raw.text_france
    /\ task.handler = "NumericSum"
    /\ task.answer = "sum of the CSV column"
    /\ task.downloads = {"csv"}

\* C24: no URL is requested with GET more than once in a run when resource
\* downloads are counted too: among the page fetches and the resource
\* downloads of a run no URL occurs twice.
C24_NoGetTwice ==
    \A r \in DOMAIN runs :
        NoDuplicates(runs[r].fetched \o runs[r].resources)

\* run r has been answered on the retry page and goes on to the next page
PassedRetryPage(r) ==
    /\ runs[r].pc = "pace"
    /\ Last(runs[r].fetched) = MockUrl.retry

C26_DiagnosticIsLast ==
    /\ [](\A r \in DOMAIN runs :
            /\ Len(runs[r].diags) <= 1
            /\ runs[r].diags /= << >> =>
                 runs[r].pc \in {"await_safe_submit", "done"})
    /\ [][\A r \in DOMAIN runs :
            runs[r].diags /= << >> =>
                /\ runs'[r].fetched = runs[r].fetched
                /\ runs'[r].resources = runs[r].resources
                /\ runs'[r].posts = runs[r].posts
                /\ runs'[r].diags = runs[r].diags]_vars

\* a run has ended after a page fetch, a resource download, an answer and its
\* two retries, and the one diagnostic that followed them
C26_Witness ==
    \E r \in DOMAIN runs :
        /\ runs[r].pc = "done"
        /\ runs[r].outcome = "retries_exhausted"
        /\ Len(runs[r].diags) = 1
        /\ runs[r].fetched /= << >>
        /\ runs[r].resources /= << >>
        /\ runs[r].posts = 3

====
